---- MODULE Spec2Model ----
(***************************************************************************)
(* A model of the digiimg directory watcher (src/main.go and its near      *)
(* duplicate src/unnamed/part_000): the scanning loop of AnalyzeDirectory, *)
(* the goroutine it spawns per file, the unsynchronised processedFiles     *)
(* map they share, the pixel-wise SSIM of main.go and the text rule of     *)
(* ExtractTextWithEnglishAndNumbers.                                       *)
(*                                                                         *)
(* Strings are sequences of one-character strings, so that ToLower,        *)
(* HasSuffix, Fields and Split are computed and not assumed.  float64      *)
(* values are exact rationals num/den whose numerator and denominator are  *)
(* naturals in base-10000 limbs (the sums of the model's images are far    *)
(* below 2^53, where float64 is exact on integers).                        *)
(***************************************************************************)
EXTENDS Integers, Sequences, FiniteSets, Bags, TLC

(***************************************************************************)
(* Bounds of the model.                                                    *)
(***************************************************************************)
\* rows and columns of the images of the scorer's own specification
MaxRows == 1
MaxCols == 2
\* goroutines of AnalyzeDirectory alive at the same time
MaxTasks == 2
\* words of an OCR text in the extractor's own specification
MaxWords == 4
\* side of the canvas both images of a task are resized to (300 in the
\* source)
CanvasSide == 1

(***************************************************************************)
(* Exact arithmetic: naturals as little-endian sequences of limbs.         *)
(***************************************************************************)
Base == 10 ^ 4

RECURSIVE Big(_)
Big(n) == IF n < Base THEN <<n>> ELSE <<n % Base>> \o Big(n \div Base)

RECURSIVE BigNorm(_)
BigNorm(a) ==
  IF Len(a) > 1 /\ a[Len(a)] = 0 THEN BigNorm(SubSeq(a, 1, Len(a) - 1)) ELSE a

RECURSIVE BigAddC(_, _, _)
BigAddC(a, b, carry) ==
  IF a = <<>> /\ b = <<>>
  THEN IF carry = 0 THEN <<>> ELSE <<carry>>
  ELSE LET x == IF a = <<>> THEN 0 ELSE Head(a)
           y == IF b = <<>> THEN 0 ELSE Head(b)
           s == x + y + carry
       IN  <<s % Base>> \o BigAddC(IF a = <<>> THEN a ELSE Tail(a),
                                   IF b = <<>> THEN b ELSE Tail(b),
                                   s \div Base)

BigAdd(a, b) == BigNorm(BigAddC(a, b, 0))

RECURSIVE BigMulLimb(_, _, _)
BigMulLimb(a, d, carry) ==
  IF a = <<>>
  THEN IF carry = 0 THEN <<>> ELSE <<carry>>
  ELSE LET p == Head(a) * d + carry
       IN  <<p % Base>> \o BigMulLimb(Tail(a), d, p \div Base)

RECURSIVE BigMul(_, _)
BigMul(a, b) ==
  IF b = <<>> THEN <<0>>
  ELSE BigAdd(BigMulLimb(a, Head(b), 0), <<0>> \o BigMul(a, Tail(b)))

RECURSIVE BigLessFrom(_, _, _)
BigLessFrom(a, b, i) ==
  IF i = 0 THEN FALSE
  ELSE IF a[i] # b[i] THEN a[i] < b[i]
  ELSE BigLessFrom(a, b, i - 1)

BigLess(a, b) ==
  LET x == BigNorm(a)
      y == BigNorm(b)
  IN  IF Len(x) # Len(y) THEN Len(x) < Len(y) ELSE BigLessFrom(x, y, Len(x))

\* the float64 value n/d
Rat(n, d) == [num |-> Big(n), den |-> Big(d)]
RatMul(p, q) == [num |-> BigMul(p.num, q.num), den |-> BigMul(p.den, q.den)]
RatLess(p, q) == BigLess(BigMul(p.num, q.den), BigMul(q.num, p.den))
RatLeq(p, q) == ~RatLess(q, p)
RatEq(p, q) == ~RatLess(p, q) /\ ~RatLess(q, p)

(***************************************************************************)
(* SSIM of main.go.                                                        *)
(***************************************************************************)
\* C1 := 6.5025 and C2 := 58.5225, as C1Num/CDen and C2Num/CDen
C1Num == 2601
C2Num == 23409
CDen == 400

\* GetUCharAt: the values an 8-bit pixel takes in the model
PixelValues == {0, 128, 255}
\* the pixel values of the images the watcher's tasks read
TaskPixels == {0, 255}

\* a gocv.Mat after gocv.Resize and gocv.CvtColor: rows of 8-bit pixels
Mats(rows, cols) == [1..rows -> [1..cols -> PixelValues]]

Cols(img) == Len(img[1])
Rows(img) == Len(img)

RECURSIVE SumOver(_, _, _, _)
\* the loops "for y < height { for x < width {" from pixel number k on,
\* adding term[I1, I2] for each pixel
SumOver(img1, img2, k, luminance) ==
  LET width == Cols(img1)
      height == Rows(img1)
  IN  IF k >= width * height THEN 0
      ELSE LET y == k \div width
               x == k % width
               I1 == img1[y + 1][x + 1]
               I2 == img2[y + 1][x + 1]
           IN  (IF luminance THEN I1 * I2 ELSE I1 * I1 + I2 * I2)
                 + SumOver(img1, img2, k + 1, luminance)

\* SSIM with the contrast term (sumS + C2) / (sumC + C2)
SSIMContrastHalved(img1, img2) ==
  LET sumL == SumOver(img1, img2, 0, TRUE)
      sumC == SumOver(img1, img2, 0, FALSE)
      sumS == SumOver(img1, img2, 0, TRUE)
      L == Rat(2 * CDen * sumL + C1Num, CDen * sumC + C1Num)
      C == Rat(CDen * sumS + C2Num, CDen * sumC + C2Num)
  IN  RatMul(L, C)

SSIM(img1, img2) ==
  LET sumL == SumOver(img1, img2, 0, TRUE)     \* sumL += I1 * I2
      sumC == SumOver(img1, img2, 0, FALSE)    \* sumC += I1^2 + I2^2
      sumS == SumOver(img1, img2, 0, TRUE)     \* sumS += I1 * I2
      L == Rat(2 * CDen * sumL + C1Num, CDen * sumC + C1Num)
      C == Rat(2 * CDen * sumC + C2Num, CDen * sumS + C2Num)
  IN  RatMul(L, C)

\* similarity > 0.8
Threshold == Rat(4, 5)
\* the gate with >= where the source has >
PassesGateAtThreshold(similarity) == RatLeq(Threshold, similarity)

PassesGate(similarity) == RatLess(Threshold, similarity)

NoScore == [num |-> <<>>, den |-> <<>>]

(***************************************************************************)
(* Strings: sequences of one-character strings.                            *)
(***************************************************************************)
UpperCase == <<"A", "B", "C", "D", "E", "F", "G", "H", "I", "J", "K", "L", "M",
               "N", "O", "P", "Q", "R", "S", "T", "U", "V", "W", "X", "Y", "Z">>
LowerCase == <<"a", "b", "c", "d", "e", "f", "g", "h", "i", "j", "k", "l", "m",
               "n", "o", "p", "q", "r", "s", "t", "u", "v", "w", "x", "y", "z">>
\* the bytes of the model's file names, in byte order
ByteOrder == <<".">> \o UpperCase \o LowerCase

Code(c) == CHOOSE i \in 1..Len(ByteOrder) : ByteOrder[i] = c

\* the filter without its strings.ToLower
ToLowerKeepsCase(s) == s

\* strings.ToLower
ToLower(s) ==
  [i \in 1..Len(s) |->
     IF \E k \in 1..Len(UpperCase) : UpperCase[k] = s[i]
     THEN LowerCase[CHOOSE k \in 1..Len(UpperCase) : UpperCase[k] = s[i]]
     ELSE s[i]]

\* strings.HasSuffix
HasSuffix(s, suffix) ==
  /\ Len(s) >= Len(suffix)
  /\ SubSeq(s, Len(s) - Len(suffix) + 1, Len(s)) = suffix

\* unicode.IsSpace on the model's characters
IsSpace(c) == c \in {" ", "\n", "\t", "\r"}

RECURSIVE FieldsFrom(_, _, _)
\* strings.Fields: the maximal runs of non-space characters, in order
FieldsFrom(s, i, word) ==
  IF i > Len(s)
  THEN IF word = <<>> THEN <<>> ELSE <<word>>
  ELSE IF IsSpace(s[i])
       THEN (IF word = <<>> THEN <<>> ELSE <<word>>) \o FieldsFrom(s, i + 1, <<>>)
       ELSE FieldsFrom(s, i + 1, Append(word, s[i]))

Fields(s) == FieldsFrom(s, 1, <<>>)

RECURSIVE SplitFrom(_, _, _, _)
\* strings.Split(s, sep) for a one-character sep: one more piece than
\* separators, empty pieces kept
SplitFrom(s, sep, i, piece) ==
  IF i > Len(s) THEN <<piece>>
  ELSE IF s[i] = sep
       THEN <<piece>> \o SplitFrom(s, sep, i + 1, <<>>)
       ELSE SplitFrom(s, sep, i + 1, Append(piece, s[i]))

Split(s, sep) == SplitFrom(s, sep, 1, <<>>)

\* ExtractTextWithEnglishAndNumbers after client.Text() returned text
\* the extractor returning the whole text where the source returns the
\* last word
LastWordKeepsText(text) ==
  IF Len(Fields(text)) > 3 THEN text ELSE <<>>

LastWord(text) ==
  LET words == Fields(text)
  IN  IF Len(words) > 3 THEN words[Len(words)] ELSE <<>>

CodeLen == 12

\* the parsing rule reading the first line where the source reads lines[1]
CodeLinesFirstLine(extractedText) ==
  LET lines == Split(extractedText, "\n")
  IN  IF Len(lines) > 0 /\ Len(lines[1]) = CodeLen THEN <<lines[1]>> ELSE <<>>

\* the goroutine's lines := strings.Split(extractedText, "\n") and the
\* test that guards fmt.Println(lines[1]): the lines it prints
CodeLines(extractedText) ==
  LET lines == Split(extractedText, "\n")
  IN  IF Len(lines) > 1 /\ Len(lines[2]) = CodeLen THEN <<lines[2]>> ELSE <<>>

(***************************************************************************)
(* The watched directory and the files in it.                              *)
(***************************************************************************)
AJpg == <<"a", ".", "j", "p", "g">>
BJPG == <<"b", ".", "J", "P", "G">>
CPng == <<"c", ".", "p", "n", "g">>
DJpg == <<"d", ".", "j", "p", "g">>
JpgSuffix == <<".", "j", "p", "g">>

\* the os.DirEntry values of the model: an image file that comes and goes,
\* and three entries that stay: an image file, a file that is no .jpg and a
\* sub-directory whose name ends in .jpg
Arriving == {[name |-> AJpg, isDir |-> FALSE]}
Resident == {[name |-> BJPG, isDir |-> FALSE], [name |-> CPng, isDir |-> FALSE],
             [name |-> DJpg, isDir |-> TRUE]}
Universe == Arriving \cup Resident
Names == {e.name : e \in Universe}

RECURSIVE NameLess(_, _)
\* s < t on Go strings (byte-wise)
NameLess(s, t) ==
  IF t = <<>> THEN FALSE
  ELSE IF s = <<>> THEN TRUE
  ELSE IF Head(s) # Head(t) THEN Code(Head(s)) < Code(Head(t))
  ELSE NameLess(Tail(s), Tail(t))

RECURSIVE ReadDir(_)
\* os.ReadDir: the entries of the directory, sorted by filename
ReadDir(entries) ==
  IF entries = {} THEN <<>>
  ELSE LET first == CHOOSE e \in entries :
                      \A o \in entries \ {e} : NameLess(e.name, o.name)
       IN  <<first>> \o ReadDir(entries \ {first})

(***************************************************************************)
(* What the files hold when a task reads them.                             *)
(***************************************************************************)
\* the resized images a task may score: canvases of one colour
TaskMats ==
  {[y \in 1..CanvasSide |-> [x \in 1..CanvasSide |-> p]] : p \in TaskPixels}

\* values gocv.SSIM of part_000, a library call, may return
ScoreSamples == {Rat(3, 4), Rat(4, 5), Rat(9, 10)}

Header == <<"H", "E", "A", "D", "E", "R">>
Footer == <<"F", "O", "O", "T", "E", "R">>
Code11 == <<"A", "B", "C", "D", "E", "F", "G", "1", "2", "3", "4">>
Code12 == Code11 \o <<"5">>
Code13 == Code12 \o <<"6">>

RECURSIVE Join(_, _)
Join(parts, sep) ==
  IF parts = <<>> THEN <<>>
  ELSE IF Len(parts) = 1 THEN parts[1]
  ELSE parts[1] \o sep \o Join(Tail(parts), sep)

\* texts client.Text() returns in the watcher's specification
SampleTexts ==
  { Join(<<Header, Code12, Footer>>, <<"\n">>),
    Join(<<Header, Code12, Footer, Code12>>, <<"\n">>) }

(***************************************************************************)
(* State.                                                                  *)
(***************************************************************************)
VARIABLES
  build,           \* the source file built: "main.go" or "part_000"
  refFile,         \* the reference image on disk: "ok", "missing", "corrupt"
  dir,             \* the entries of the watched directory
  pc,              \* where the scanning loop of AnalyzeDirectory is
  files,           \* files: what os.ReadDir returned
  idx,             \* the position of "for _, file := range files"
  processedFiles,  \* the map[string]bool
  scanRaced,       \* the loop's map access in progress overlapped a write
  tasks,           \* the goroutines alive: a bag of their states
  spawned,         \* per filename, whether a goroutine was spawned for it:
                   \*   "never", "once" or "again"
  stdout,          \* what fmt.Println wrote: <<filename, line>>
  logLine,         \* what log.Printf wrote in the last step, "" if nothing
  ended,           \* the goroutine whose function body ended in the last
                   \*   step, with its locals, the statement it ended by,
                   \*   and the error it logged with the path in it
  listed,          \* os.ReadDir has been called
  slept,           \* time.Sleep has run since the last call of os.ReadDir
  failures,        \* whether a task has failed so far: "none" or "some",
                   \*   "untracked" where the specification keeps no record
  crashed,         \* the runtime ended the process with a fatal error
  mat1, mat2,      \* the scorer's specification: the arguments of SSIM
  ssimIndex,       \*   and its result
  ocrText,         \* the extractor's specification: what client.Text() gave
  extracted,       \*   what ExtractTextWithEnglishAndNumbers returned
  printed,         \*   what the goroutine's parsing rule printed
  textPc           \*   and how far that pipeline is

watcherVars == <<build, refFile, dir, pc, files, idx, processedFiles,
                 scanRaced, tasks, spawned, stdout, logLine, ended, listed,
                 slept, failures, crashed>>
scorerVars == <<mat1, mat2, ssimIndex>>
textVars == <<ocrText, extracted, printed, textPc>>
pureVars == <<scorerVars, textVars>>
vars == <<watcherVars, listed, slept, failures,
                 pureVars>>

NoText == <<"<none>">>

\* processedFiles[filename]: false for a key the map does not hold
MapGet(m, filename) == IF filename \in DOMAIN m THEN m[filename] ELSE FALSE

\* processedFiles[filename] = true
MapSet(m, filename) ==
  [k \in DOMAIN m \cup {filename} |-> IF k = filename THEN TRUE ELSE m[k]]

\* the map with only the keys of keep
Restrict(m, keep) == [k \in keep |-> m[k]]

\* what a map read may return: the value held, or, after a data race,
\* anything (the Go memory model leaves a racing map access undefined)
ReadResults(wasRaced, filename) ==
  IF wasRaced THEN BOOLEAN ELSE {MapGet(processedFiles, filename)}

\* what a map write may leave: the map with the key set, or, after a data
\* race, that map with entries lost
WriteResults(wasRaced, filename) ==
  LET m == MapSet(processedFiles, filename)
  IN  IF wasRaced THEN {Restrict(m, keep) : keep \in SUBSET DOMAIN m}
      ELSE {m}

\* ValidateImage without its img.Empty() test
ValidateImageStatOnly(fileState) ==
  IF fileState = "missing" THEN "image not found" ELSE ""

\* ValidateImage: the error it returns, "" for none
ValidateImage(fileState) ==
  IF fileState = "missing" THEN "image not found"
  ELSE IF fileState = "corrupt" THEN "unable to read image"
  ELSE ""

\* what a task finds at its path: the file as it is on disk at that moment
FileStates(filename) ==
  IF \E e \in dir : e.name = filename THEN {"ok", "corrupt"} ELSE {"missing"}

\* CompareImages(path, referenceImagePath): the (similarity, err) pairs it
\* may return.  main.go scores with its own SSIM; part_000 calls gocv.SSIM,
\* which may also fail.
CompareImages(image1, image2, bld) ==
  IF ValidateImage(image1) # ""
  THEN {[err |-> ValidateImage(image1), path |-> "image1Path",
         similarity |-> NoScore]}
  ELSE IF ValidateImage(image2) # ""
  THEN {[err |-> ValidateImage(image2), path |-> "image2Path",
         similarity |-> NoScore]}
  ELSE IF bld = "main.go"
  THEN {[err |-> "", path |-> "", similarity |-> SSIM(img1Resized, img2Resized)] :
          img1Resized \in TaskMats, img2Resized \in TaskMats}
  ELSE {[err |-> "", path |-> "", similarity |-> s] : s \in ScoreSamples}
         \cup {[err |-> "ssim failed", path |-> "", similarity |-> NoScore]}

\* ExtractTextWithEnglishAndNumbers(path): the (text read, string returned,
\* err) triples it may return
ExtractText(image) ==
  IF image # "ok"
  THEN {[err |-> "unable to read image", text |-> NoText, result |-> <<>>]}
  ELSE {[err |-> "ocr failed", text |-> NoText, result |-> <<>>]}
         \cup {[err |-> "", text |-> t, result |-> LastWord(t)] : t \in SampleTexts}

\* the goroutine of "go func(path string) {...}(filePath)", about to start
NewTask(filename) ==
  [filename |-> filename, pc |-> "compare", similarity |-> NoScore,
   text |-> NoText, extractedText |-> NoText, raced |-> FALSE]

\* the goroutine once its body has ended and only the deferred call is left:
\* its locals are dead
Ended(task) == [NewTask(task.filename) EXCEPT !.pc = "defer"]

\* no function body ended in the last step
NoEnd == [by |-> "", task |-> NewTask(<<>>), err |-> "", path |-> ""]

\* the record of failures after one more task has failed
Failed == IF failures = "untracked" THEN failures ELSE "some"

\* a step that logs nothing and ends no function body
Quiet == logLine' = "" /\ ended' = NoEnd

Alive == BagToSet(tasks)

\* the bag with one copy of task replaced by next
Step(task, next) == (tasks (-) SetToBag({task})) (+) SetToBag({next})

\* the goroutines in the middle of their deferred map write
Marking == {task \in Alive : task.pc = "marking"}
\* the scanning loop is in the middle of a map access
ScanAccessing == pc \in {"lookup", "marking"}

\* the bag with every goroutine that is writing the map marked as raced
RacedAll(bag) ==
  LET mark(task) == IF task.pc = "marking" THEN [task EXCEPT !.raced = TRUE]
                    ELSE task
      marked == {mark(task) : task \in BagToSet(bag)}
  IN  [task \in marked |->
         CopiesIn(task, bag)
           + (IF task.pc = "marking" /\ task.raced
              THEN CopiesIn([task EXCEPT !.raced = FALSE], bag) ELSE 0)]

\* the scorer's and the extractor's own specifications are not running
ScorerIdle == mat1 = <<>> /\ mat2 = <<>> /\ ssimIndex = NoScore
TextIdle == ocrText = NoText /\ extracted = NoText /\ printed = <<>> /\ textPc = "off"

(***************************************************************************)
(* The scanning loop of AnalyzeDirectory.                                  *)
(***************************************************************************)
Start ==
  /\ build \in {"main.go", "part_000"}
  /\ refFile \in {"ok", "missing", "corrupt"}
  /\ dir \in {Resident \cup s : s \in SUBSET Arriving}
  /\ pc = "init"
  /\ files = <<>>
  /\ idx = 1
  /\ processedFiles = <<>>
  /\ scanRaced = FALSE
  /\ tasks = EmptyBag
  /\ spawned = [n \in Names |-> "never"]
  /\ stdout = {}
  /\ logLine = ""
  /\ ended = NoEnd
  /\ listed = FALSE
  /\ slept = FALSE
  /\ crashed = FALSE
  /\ ScorerIdle
  /\ TextIdle

Init == Start /\ failures = "untracked"

\* _, err := ValidateImage(referenceImagePath); if err != nil { log; return }
ScanValidateRef ==
  /\ pc = "init" /\ ~crashed
  /\ IF ValidateImage(refFile) # ""
     THEN /\ logLine' = "Reference image not found"
          /\ pc' = "returned"
     ELSE /\ logLine' = ""
          /\ pc' = "list"
  /\ ended' = NoEnd
  /\ UNCHANGED <<build, refFile, dir, files, idx, processedFiles, scanRaced,
                 tasks, spawned, stdout, crashed, listed, slept, failures,
                 pureVars>>

\* files, err := os.ReadDir(directory); if err != nil { log; continue }
ScanReadDir ==
  /\ pc = "list" /\ ~crashed
  /\ \/ /\ logLine' = "Error reading directory"
        /\ UNCHANGED <<pc, files, idx>>
     \/ /\ files' = ReadDir(dir)
        /\ idx' = 1
        /\ pc' = "range"
        /\ logLine' = ""
  /\ listed' = TRUE
  /\ slept' = FALSE
  /\ ended' = NoEnd
  /\ UNCHANGED <<build, refFile, dir, processedFiles, scanRaced, tasks,
                 spawned, stdout, crashed, failures, pureVars>>

\* for _, file := range files: the loop is over
ScanRangeEnd ==
  /\ pc = "range" /\ ~crashed
  /\ idx > Len(files)
  /\ pc' = "sleep"
  /\ Quiet
  /\ UNCHANGED <<build, refFile, dir, files, idx, processedFiles, scanRaced,
                 tasks, spawned, stdout, crashed, listed, slept, failures,
                 pureVars>>

\* if file.IsDir() { continue }
ScanSkipDir ==
  /\ pc = "range" /\ ~crashed
  /\ idx <= Len(files)
  /\ files[idx].isDir
  /\ idx' = idx + 1
  /\ Quiet
  /\ UNCHANGED <<build, refFile, dir, pc, files, processedFiles, scanRaced,
                 tasks, spawned, stdout, crashed, listed, slept, failures,
                 pureVars>>

\* the loop begins a map access: it races with every goroutine that is
\* writing the map at that moment
ScanBeginAccess ==
  /\ scanRaced' = (Marking # {})
  /\ tasks' = IF Marking # {} THEN RacedAll(tasks) ELSE tasks

\* the read of processedFiles[filename] begins
ScanLookupBegin ==
  /\ pc = "range" /\ ~crashed
  /\ idx <= Len(files)
  /\ ~files[idx].isDir
  /\ ScanBeginAccess
  /\ pc' = "lookup"
  /\ Quiet
  /\ UNCHANGED <<build, refFile, dir, files, idx, processedFiles, spawned,
                 stdout, crashed, listed, slept, failures,
                 pureVars>>

\* if processedFiles[filename] ||
\*    !strings.HasSuffix(strings.ToLower(filename), ".jpg") { continue }
ScanLookupEnd ==
  /\ pc = "lookup" /\ ~crashed
  /\ \E claimed \in ReadResults(scanRaced, files[idx].name) :
       IF claimed \/ ~HasSuffix(ToLower(files[idx].name), JpgSuffix)
       THEN idx' = idx + 1 /\ pc' = "range"
       ELSE idx' = idx /\ pc' = "claim"
  /\ scanRaced' = FALSE
  /\ Quiet
  /\ UNCHANGED <<build, refFile, dir, files, processedFiles, tasks, spawned,
                 stdout, crashed, listed, slept, failures,
                 pureVars>>

\* processedFiles[filename] = true begins (the model holds the loop here
\* while MaxTasks goroutines are alive)
ScanClaimBegin ==
  /\ pc = "claim" /\ ~crashed
  /\ BagCardinality(tasks) < MaxTasks
  /\ ScanBeginAccess
  /\ pc' = "marking"
  /\ Quiet
  /\ UNCHANGED <<build, refFile, dir, files, idx, processedFiles, spawned,
                 stdout, crashed, listed, slept, failures,
                 pureVars>>

\* processedFiles[filename] = true is done
ScanClaimEnd ==
  /\ pc = "marking" /\ ~crashed
  /\ processedFiles' \in WriteResults(scanRaced, files[idx].name)
  /\ scanRaced' = FALSE
  /\ pc' = "spawn"
  /\ Quiet
  /\ UNCHANGED <<build, refFile, dir, files, idx, tasks, spawned, stdout,
                 crashed, listed, slept, failures,
                 pureVars>>

\* go func(path string) { ... }(filePath)
ScanSpawn ==
  /\ pc = "spawn" /\ ~crashed
  /\ tasks' = tasks (+) SetToBag({NewTask(files[idx].name)})
  /\ spawned' = [spawned EXCEPT ![files[idx].name] =
                                   IF @ = "never" THEN "once" ELSE "again"]
  /\ idx' = idx + 1
  /\ pc' = "range"
  /\ Quiet
  /\ UNCHANGED <<build, refFile, dir, files, processedFiles, scanRaced,
                 stdout, crashed, listed, slept, failures,
                 pureVars>>

\* time.Sleep(1 * time.Second)
ScanSleep ==
  /\ pc = "sleep" /\ ~crashed
  /\ pc' = "list"
  /\ slept' = TRUE
  /\ Quiet
  /\ UNCHANGED <<build, refFile, dir, files, idx, processedFiles, scanRaced,
                 tasks, spawned, stdout, crashed, listed, failures, pureVars>>

\* "fatal error: concurrent map read and map write" / "concurrent map
\* writes": the runtime may detect the loop's racing access and end the
\* process
ScanFatal ==
  /\ ScanAccessing /\ ~crashed
  /\ scanRaced
  /\ crashed' = TRUE
  /\ Quiet
  /\ UNCHANGED <<build, refFile, dir, pc, files, idx, processedFiles,
                 scanRaced, tasks, spawned, stdout, listed, slept, failures,
                 pureVars>>

(***************************************************************************)
(* The goroutine spawned per file.                                         *)
(***************************************************************************)
\* similarity, err := CompareImages(path, referenceImagePath)
\* if err != nil { log.Printf("Error comparing images: %s", err); return }
TaskCompare(task) ==
  /\ task.pc = "compare" /\ ~crashed
  /\ \E image1 \in FileStates(task.filename) :
     \E r \in CompareImages(image1, refFile, build) :
       IF r.err # ""
       THEN /\ tasks' = Step(task, Ended(task))
            /\ logLine' = "Error comparing images"
            /\ ended' = [by |-> "compare", task |-> task, err |-> r.err,
                         path |-> r.path]
            /\ failures' = Failed
       ELSE /\ tasks' = Step(task, [task EXCEPT !.pc = "gate",
                                                !.similarity = r.similarity])
            /\ Quiet
            /\ failures' = failures
  /\ UNCHANGED <<build, refFile, dir, pc, files, idx, processedFiles,
                 scanRaced, spawned, stdout, crashed, listed, slept,
                 pureVars>>

\* if similarity > 0.8 is false: the function body ends
TaskSkip(task) ==
  /\ task.pc = "gate" /\ ~crashed
  /\ ~PassesGate(task.similarity)
  /\ tasks' = Step(task, Ended(task))
  /\ logLine' = ""
  /\ ended' = [by |-> "gate", task |-> task, err |-> "", path |-> ""]
  /\ UNCHANGED <<build, refFile, dir, pc, files, idx, processedFiles,
                 scanRaced, spawned, stdout, crashed, listed, slept, failures,
                 pureVars>>

\* if similarity > 0.8 {
\*   extractedText, err := ExtractTextWithEnglishAndNumbers(path)
\*   if err != nil { log.Printf("Error extracting text: %s", err); return }
TaskExtract(task) ==
  /\ task.pc = "gate" /\ ~crashed
  /\ PassesGate(task.similarity)
  /\ \E image \in FileStates(task.filename) :
     \E r \in ExtractText(image) :
       IF r.err # ""
       THEN /\ tasks' = Step(task, Ended(task))
            /\ logLine' = "Error extracting text"
            /\ ended' = [by |-> "extract", task |-> task, err |-> r.err,
                         path |-> "imagePath"]
            /\ failures' = Failed
       ELSE /\ tasks' = Step(task, [task EXCEPT !.pc = "parse",
                                                !.similarity = NoScore,
                                                !.text = r.text,
                                                !.extractedText = r.result])
            /\ Quiet
            /\ failures' = failures
  /\ UNCHANGED <<build, refFile, dir, pc, files, idx, processedFiles,
                 scanRaced, spawned, stdout, crashed, listed, slept,
                 pureVars>>

\* lines := strings.Split(extractedText, "\n")
\* if len(lines) > 1 && len(lines[1]) == 12 { fmt.Println(lines[1]) }
TaskParse(task) ==
  /\ task.pc = "parse" /\ ~crashed
  /\ LET out == CodeLines(task.extractedText)
     IN  stdout' = stdout \cup {<<task.filename, out[i]>> : i \in 1..Len(out)}
  /\ tasks' = Step(task, Ended(task))
  /\ logLine' = ""
  /\ ended' = [by |-> "parse", task |-> task, err |-> "", path |-> ""]
  /\ UNCHANGED <<build, refFile, dir, pc, files, idx, processedFiles,
                 scanRaced, spawned, crashed, listed, slept, failures,
                 pureVars>>

\* defer func() { processedFiles[filename] = true }(): the write begins, and
\* races with the loop's access and with every other goroutine's write in
\* progress
TaskDeferBegin(task) ==
  /\ task.pc = "defer" /\ ~crashed
  /\ LET overlap == ScanAccessing \/ Marking # {}
         others == tasks (-) SetToBag({task})
     IN  /\ tasks' = (IF overlap THEN RacedAll(others) ELSE others)
                       (+) SetToBag({[task EXCEPT !.pc = "marking",
                                                  !.raced = overlap]})
         /\ scanRaced' = (scanRaced \/ ScanAccessing)
  /\ Quiet
  /\ UNCHANGED <<build, refFile, dir, pc, files, idx, processedFiles,
                 spawned, stdout, crashed, listed, slept, failures,
                 pureVars>>

\* the deferred write is done and the goroutine is gone
TaskDeferEnd(task) ==
  /\ task.pc = "marking" /\ ~crashed
  /\ processedFiles' \in WriteResults(task.raced, task.filename)
  /\ tasks' = tasks (-) SetToBag({task})
  /\ Quiet
  /\ UNCHANGED <<build, refFile, dir, pc, files, idx, scanRaced, spawned,
                 stdout, crashed, listed, slept, failures,
                 pureVars>>

\* the runtime may detect the goroutine's racing write and end the process
TaskFatal(task) ==
  /\ task.pc = "marking" /\ ~crashed
  /\ task.raced
  /\ crashed' = TRUE
  /\ Quiet
  /\ UNCHANGED <<build, refFile, dir, pc, files, idx, processedFiles,
                 scanRaced, tasks, spawned, stdout, listed, slept, failures,
                 pureVars>>

(***************************************************************************)
(* The file system around the running process.                             *)
(***************************************************************************)
Running == pc # "returned" /\ ~crashed

FileArrives(e) ==
  /\ Running
  /\ e \in Arriving \ dir
  /\ dir' = dir \cup {e}
  /\ Quiet
  /\ UNCHANGED <<build, refFile, pc, files, idx, processedFiles, scanRaced,
                 tasks, spawned, stdout, crashed, listed, slept, failures,
                 pureVars>>

FileRemoved(e) ==
  /\ Running
  /\ e \in Arriving \cap dir
  /\ dir' = dir \ {e}
  /\ Quiet
  /\ UNCHANGED <<build, refFile, pc, files, idx, processedFiles, scanRaced,
                 tasks, spawned, stdout, crashed, listed, slept, failures,
                 pureVars>>

\* the reference image is deleted
RefRemoved ==
  /\ Running
  /\ refFile = "ok"
  /\ refFile' = "missing"
  /\ Quiet
  /\ UNCHANGED <<build, dir, pc, files, idx, processedFiles, scanRaced,
                 tasks, spawned, stdout, crashed, listed, slept, failures,
                 pureVars>>

Next ==
  \/ ScanValidateRef
  \/ ScanReadDir
  \/ ScanRangeEnd
  \/ ScanSkipDir
  \/ ScanLookupBegin
  \/ ScanLookupEnd
  \/ ScanClaimBegin
  \/ ScanClaimEnd
  \/ ScanSpawn
  \/ ScanSleep
  \/ ScanFatal
  \/ \E task \in Alive : TaskCompare(task)
  \/ \E task \in Alive : TaskSkip(task)
  \/ \E task \in Alive : TaskExtract(task)
  \/ \E task \in Alive : TaskParse(task)
  \/ \E task \in Alive : TaskDeferBegin(task)
  \/ \E task \in Alive : TaskDeferEnd(task)
  \/ \E task \in Alive : TaskFatal(task)
  \/ \E e \in Arriving : FileArrives(e)

Spec == Init /\ [][Next]_vars

\* the watcher with a record of whether a task has failed
InitFail == Start /\ failures = "none"

SpecFail == InitFail /\ [][Next]_vars

\* the watcher while files may also be deleted from the directory
NextGone == Next \/ \E e \in Arriving : FileRemoved(e)
SpecGone == Init /\ [][NextGone]_vars

\* the watcher while the reference image may be deleted under it
NextRef == Next \/ RefRemoved
SpecRef == Init /\ [][NextRef]_vars

\* no watcher runs in the scorer's and the extractor's own specifications
WatcherIdle ==
  /\ build = "main.go"
  /\ refFile = "ok"
  /\ dir = Resident
  /\ pc = "init"
  /\ files = <<>>
  /\ idx = 1
  /\ processedFiles = <<>>
  /\ scanRaced = FALSE
  /\ tasks = EmptyBag
  /\ spawned = [n \in Names |-> "never"]
  /\ stdout = {}
  /\ logLine = ""
  /\ ended = NoEnd
  /\ listed = FALSE
  /\ slept = FALSE
  /\ failures = "untracked"
  /\ crashed = FALSE

(***************************************************************************)
(* The scorer alone: SSIM of main.go on every pair of same-sized images    *)
(* of up to MaxRows x MaxCols pixels.                                      *)
(***************************************************************************)
InitSSIM ==
  /\ WatcherIdle
  /\ TextIdle
  /\ \E rows \in 1..MaxRows, cols \in 1..MaxCols :
       /\ mat1 \in Mats(rows, cols)
       /\ mat2 \in Mats(rows, cols)
  /\ ssimIndex = NoScore

\* ssimValue := SSIM(img1Resized, img2Resized)
Score ==
  /\ ssimIndex = NoScore
  /\ ssimIndex' = SSIM(mat1, mat2)
  /\ UNCHANGED <<watcherVars, textVars, mat1, mat2>>

SpecSSIM == InitSSIM /\ [][Score]_vars

(***************************************************************************)
(* The extractor and the parsing rule alone, on every text of up to        *)
(* MaxWords words.                                                         *)
(***************************************************************************)
Words == {Header, Footer, Code11, Code12, Code13}
Separators == {<<" ">>, <<"\n">>}

RECURSIVE TextsOf(_)
\* the texts of n words, one separator between two words
TextsOf(n) ==
  IF n = 0 THEN {<<>>}
  ELSE IF n = 1 THEN Words
  ELSE {t \o sep \o w : t \in TextsOf(n - 1), sep \in Separators, w \in Words}

Texts == UNION {TextsOf(n) : n \in 0..MaxWords}

InitText ==
  /\ WatcherIdle
  /\ ScorerIdle
  /\ ocrText \in Texts
  /\ extracted = NoText
  /\ printed = <<>>
  /\ textPc = "extract"

\* extractedText, err := ExtractTextWithEnglishAndNumbers(path), err == nil
Extract ==
  /\ textPc = "extract"
  /\ extracted' = LastWord(ocrText)
  /\ textPc' = "parse"
  /\ UNCHANGED <<watcherVars, scorerVars, ocrText, printed>>

\* lines := strings.Split(extractedText, "\n"); if ... { fmt.Println(lines[1]) }
Parse ==
  /\ textPc = "parse"
  /\ printed' = CodeLines(extracted)
  /\ textPc' = "done"
  /\ UNCHANGED <<watcherVars, scorerVars, ocrText, extracted>>

NextText == Extract \/ Parse
SpecText == InitText /\ [][NextText]_vars

(***************************************************************************)
(* Properties.                                                             *)
(***************************************************************************)
\* the map accesses in progress: the loop's, and the goroutines' deferred writes
MarkingCount == BagCardinality([task \in Marking |-> CopiesIn(task, tasks)])
Accessors == (IF ScanAccessing THEN 1 ELSE 0) + MarkingCount

\* C1: over any number of scans and any interleaving of the loop with its
\* tasks, at most one task is ever spawned for a filename.
AtMostOneDispatch == \A n \in Names : spawned[n] # "again"

\* C2: a task whose recognised text has a second line of exactly 12
\* characters prints that line, as "HEADER\nABCDEFG12345\nFOOTER" prints
\* "ABCDEFG12345".
RecognisedCodeEmitted ==
  ended.by = "parse" =>
    LET lines == Split(ended.task.text, "\n")
    IN  (Len(lines) > 1 /\ Len(lines[2]) = 12) =>
          <<ended.task.filename, lines[2]>> \in stdout

\* C3: every value a task prints is 12 characters long and is the second
\* line of the text the extractor returned for that file; when that second
\* line has another length, or there is none, the task prints nothing and
\* logs no error.
EmittedOnlyCodes ==
  /\ [](\A e \in stdout : Len(e[2]) = 12)
  /\ [][stdout' # stdout => ended'.by = "parse"]_vars
  /\ [][ended'.by = "parse" =>
          LET lines == Split(ended'.task.extractedText, "\n")
              isCode == Len(lines) > 1 /\ Len(lines[2]) = 12
          IN  /\ isCode => stdout' \ stdout \subseteq
                              {<<ended'.task.filename, lines[2]>>}
              /\ ~isCode => stdout' = stdout /\ logLine' = ""]_vars

\* C3: a task has parsed a 12-character text with no second line and has
\* printed nothing
EmittedOnlyCodesWitness ==
  /\ ended.by = "parse"
  /\ Len(ended.task.extractedText) = 12
  /\ Len(Split(ended.task.extractedText, "\n")) = 1
  /\ stdout = {}
  /\ logLine = ""

\* the goroutines that left their statement in a step, and where they went
Left == BagToSet(tasks (-) tasks')
Entered == BagToSet(tasks' (-) tasks)

\* the order of a task's stages: load and score, gate, extract, parse and
\* print, then the deferred write
StageOrder ==
  { <<"compare", "gate">>, <<"compare", "defer">>, <<"gate", "parse">>,
    <<"gate", "defer">>, <<"parse", "defer">>, <<"defer", "marking">>,
    <<"marking", "marking">> }

\* C4: a task runs its stages in the order load, score, extract, print; the
\* extractor is invoked only after a score strictly above 0.8; at a score
\* of 0.75 or of exactly 0.8, or after a failed comparison, the extractor
\* is not invoked and nothing is printed for the file.
SimilarityGate ==
  /\ [][\A task \in Left : \A next \in Entered :
          task.filename = next.filename => <<task.pc, next.pc>> \in StageOrder]_vars
  /\ [][\A next \in Entered :
          next.pc = "parse" =>
            \E task \in Left : /\ task.filename = next.filename
                                /\ task.pc = "gate"
                                /\ RatLess(Rat(4, 5), task.similarity)]_vars
  /\ [][ended'.by = "extract" => RatLess(Rat(4, 5), ended'.task.similarity)]_vars
  /\ [][\A task \in Left :
          (task.pc = "gate" /\ RatLeq(task.similarity, Rat(4, 5))) =>
            /\ ended'.by = "gate" /\ ended'.task = task
            /\ stdout' = stdout]_vars
  /\ [][ended'.by = "compare" =>
          /\ stdout' = stdout
          /\ \A next \in Entered : next.pc = "defer"]_vars
  /\ [][stdout' # stdout => ended'.by = "parse"]_vars

\* C4: a task scored exactly 0.8 and ended at the gate with nothing printed
SimilarityGateWitness ==
  /\ ended.by = "gate"
  /\ RatEq(ended.task.similarity, Rat(4, 5))
  /\ stdout = {}

\* C5: the reference image is validated before anything else; when it is
\* missing or unreadable the watcher logs "Reference image not found" and
\* returns, with no directory listing, no task and no retry; when it is
\* valid the watcher starts scanning.
Startup ==
  /\ [](pc = "init" => ~listed /\ tasks = EmptyBag)
  /\ [][(pc = "init" /\ pc' # "init") =>
          IF refFile = "ok"
          THEN pc' = "list" /\ logLine' = ""
          ELSE pc' = "returned" /\ logLine' = "Reference image not found"]_vars
  /\ [](pc = "returned" =>
          /\ refFile # "ok"
          /\ ~listed
          /\ tasks = EmptyBag
          /\ \A n \in Names : spawned[n] = "never")
  /\ [][pc = "returned" => pc' = "returned"]_vars

\* C5: the watcher has returned on an unreadable reference image
StartupWitness ==
  /\ pc = "returned"
  /\ refFile = "corrupt"
  /\ logLine = "Reference image not found"
  /\ ~listed

\* C6: only entries that are not directories and whose lower-cased name
\* ends in ".jpg" are candidates: of a.jpg, b.JPG, c.png and the directory
\* d.jpg, tasks are dispatched for a.jpg and b.JPG only.
CandidateFilter ==
  /\ [](\A n \in Names \ {AJpg, BJPG} :
          /\ spawned[n] = "never"
          /\ n \notin DOMAIN processedFiles
          /\ \A task \in Alive : task.filename # n)
  /\ [][(pc = "lookup" /\ pc' # "lookup") =>
          /\ pc' = "claim" => files[idx].name \in {AJpg, BJPG}
          /\ ( /\ files[idx].name \in {AJpg, BJPG}
               /\ files[idx].name \notin DOMAIN processedFiles
               /\ ~scanRaced ) => pc' = "claim"]_vars

\* C6: both a.jpg and b.JPG have been dispatched, with c.png and the
\* directory d.jpg listed beside them
CandidateFilterWitness ==
  /\ spawned[AJpg] = "once"
  /\ spawned[BJPG] = "once"
  /\ Len(files) = 4

\* C7: SSIM of two identical images of the same size is 1.0, and no pair of
\* different images scores above that.
IdenticalScoresOne ==
  ssimIndex # NoScore =>
    /\ mat1 = mat2 => RatEq(ssimIndex, Rat(1, 1))
    /\ mat1 # mat2 => RatLeq(ssimIndex, Rat(1, 1))

\* C8: every score SSIM returns lies between 0 and 1, both included.
ScoreInUnitInterval ==
  ssimIndex # NoScore =>
    RatLeq(Rat(0, 1), ssimIndex) /\ RatLeq(ssimIndex, Rat(1, 1))

\* C9: no state is reachable in which one thread writes processedFiles
\* while another thread reads or writes it.
MutualExclusion ==
  (pc = "marking" \/ MarkingCount > 0) => Accessors <= 1

\* C10: after a task's load, comparison or extraction has failed, the
\* watcher is still scanning.
FailureContained == failures = "some" => (pc # "returned" /\ ~crashed)

\* C11: a failed directory listing is logged, dispatches nothing, leaves
\* processedFiles as it is and is followed by another listing; once it is
\* scanning the watcher never terminates.
NeverTerminates ==
  /\ [][(pc = "list" /\ logLine' = "Error reading directory") =>
          /\ pc' = "list"
          /\ tasks' = tasks
          /\ processedFiles' = processedFiles
          /\ spawned' = spawned]_vars
  /\ [](pc \notin {"init", "returned"} => ~crashed)
  /\ [][pc \notin {"init", "returned"} => pc' # "returned"]_vars

\* C12: between two consecutive calls of os.ReadDir the loop sleeps its
\* interval, also when the earlier call failed.
PollPacing ==
  [][(pc = "list" /\ listed /\ (pc' = "range" \/ logLine' = "Error reading directory"))
       => slept]_vars

\* a step of the scanning loop
ScanStep ==
  \/ ScanReadDir
  \/ ScanRangeEnd
  \/ ScanSkipDir
  \/ ScanLookupBegin
  \/ ScanLookupEnd
  \/ ScanClaimBegin
  \/ ScanClaimEnd
  \/ ScanSpawn
  \/ ScanSleep

\* C13: the scanning loop never waits for its tasks: whatever tasks are
\* still running, the loop can take its next step (below MaxTasks
\* goroutines, where the model holds it), so it goes on to its next scan.
LoopNeverWaits ==
  ( /\ pc \notin {"init", "returned"}
    /\ tasks # EmptyBag
    /\ pc = "claim" => BagCardinality(tasks) < MaxTasks ) => ENABLED ScanStep

\* C14: the reference image is read once, at startup: no task reads the
\* file again, so no task ever fails on the reference path, whatever
\* happens to that file once the watcher is scanning.
ReferenceLoadedOnce == ended.by = "compare" => ended.path # "image2Path"

\* C15: processedFiles only grows: a filename that is in it stays in it,
\* with value true, in every later state, whatever happens to the file.
ProcessedSetMonotone ==
  [][\A n \in DOMAIN processedFiles :
       n \in DOMAIN processedFiles' /\ processedFiles'[n] = TRUE]_vars

\* C16: in a scan whose listing succeeded, every listed file whose
\* lower-cased name ends in ".jpg" and that is not in processedFiles is
\* inserted and then gets its task in that scan; every filename that has a
\* task is in processedFiles.
ClaimThenDispatch ==
  /\ [][( /\ pc = "lookup" /\ pc' # "lookup"
          /\ files[idx].name \in {AJpg, BJPG}
          /\ files[idx].name \notin DOMAIN processedFiles ) => pc' = "claim"]_vars
  /\ [][(pc = "claim" /\ pc' \notin {"claim", "marking"}) => FALSE]_vars
  /\ [][(pc = "marking" /\ pc' # "marking") =>
          /\ pc' = "spawn"
          /\ files[idx].name \in DOMAIN processedFiles'
          /\ processedFiles'[files[idx].name] = TRUE]_vars
  /\ [][(pc = "spawn" /\ pc' # "spawn") =>
          /\ spawned'[files[idx].name] # "never"
          /\ BagCardinality(tasks') = BagCardinality(tasks) + 1]_vars
  /\ [](\A task \in Alive :
          /\ task.filename \in DOMAIN processedFiles
          /\ processedFiles[task.filename] = TRUE)

\* the characters of a text that are white space
Blank == {" ", "\n", "\t", "\r"}

\* the number of tokens of a text: the places where a token begins
TokenCount(text) ==
  Cardinality({i \in 1..Len(text) :
                 text[i] \notin Blank /\ (i = 1 \/ text[i - 1] \in Blank)})

\* the last token of a text that has one
LastToken(text) ==
  LET last == CHOOSE i \in 1..Len(text) :
                /\ text[i] \notin Blank
                /\ \A j \in (i + 1)..Len(text) : text[j] \in Blank
      first == CHOOSE i \in 1..last :
                 /\ \A j \in i..last : text[j] \notin Blank
                 /\ (i = 1 \/ text[i - 1] \in Blank)
  IN  SubSeq(text, first, last)

\* C17: the string the extractor returns is empty or, when the OCR text has
\* more than 3 tokens, its last token; it holds no newline, splitting it on
\* newline gives one line, and no code is printed for it.
ExtractorReturnsOneToken ==
  textPc \in {"parse", "done"} =>
    /\ extracted = (IF TokenCount(ocrText) > 3 THEN LastToken(ocrText) ELSE <<>>)
    /\ \A i \in 1..Len(extracted) : extracted[i] # "\n"
    /\ Len(Split(extracted, "\n")) = 1
    /\ textPc = "done" => printed = <<>>

\* C17: a text of more than 3 tokens whose second line has 12 characters
\* has been extracted and parsed, and nothing was printed
ExtractorReturnsOneTokenWitness ==
  /\ textPc = "done"
  /\ TokenCount(ocrText) > 3
  /\ Len(Split(ocrText, "\n")) > 1
  /\ Len(Split(ocrText, "\n")[2]) = 12
  /\ Len(extracted) = 12
  /\ printed = <<>>

\* C18: the write a task defers to its end sets the task's own filename,
\* which the loop has inserted already: a task that ends leaves
\* processedFiles as it was, and only the loop's own write adds a key.
DeferredWriteAddsNothing ==
  /\ [][BagCardinality(tasks') < BagCardinality(tasks) =>
          processedFiles' = processedFiles]_vars
  /\ [][~(DOMAIN processedFiles' \subseteq DOMAIN processedFiles) =>
          (pc = "marking" /\ pc' = "spawn")]_vars

\* C19: SSIM of main.go scores two images of the same size and the same
\* pixels at 1 or more, which is above 0.8 and passes the gate.
IdenticalPassesGate ==
  (ssimIndex # NoScore /\ mat1 = mat2) =>
    /\ RatLeq(Rat(1, 1), ssimIndex)
    /\ RatLess(Rat(4, 5), ssimIndex)
    /\ PassesGate(ssimIndex)

\* C19: two identical images with a white pixel have been scored above 1
IdenticalPassesGateWitness ==
  /\ ssimIndex # NoScore
  /\ mat1 = mat2
  /\ \E y \in 1..Len(mat1) : \E x \in 1..Len(mat1[y]) : mat1[y][x] = 255
  /\ RatLess(Rat(1, 1), ssimIndex)

====
